---- MODULE Spec2Model ----
(***************************************************************************)
(* Model of the SMA-crossover trader, src/_agent/traders/sma_crossover.py: *)
(* the EMA tracker class and the Trader's learn / act / save_weights /     *)
(* reset operations.  learn() and act() are coroutines: a call runs up to  *)
(* an await, is suspended there while other calls run, and is resumed.     *)
(*                                                                         *)
(* Units.  Every price and reward is an integer number of price steps      *)
(* (price_adj_step = 0.001 $/kWh), so a table price of c cents is 10*c.    *)
(* Tracker averages are exact rationals <<numerator, denominator>>.        *)
(* States of charge are integer percent (0.3 is 30, 0.9 is 90).            *)
(* Energy quantities are integers.                                         *)
(***************************************************************************)
EXTENDS Integers, Sequences, FiniteSets, Bags, TLC

(***************************************************************************)
(* Program constants                                                       *)
(***************************************************************************)
MinutesPerDay == 1440

SmaWindow == 23

LmaWindow == 50

TableWindow == 15

price_adj_step == 1

StepsPerCent == 10

SocBuyBelow == 90

SocSellAbove == 30

SecondsPerMinute == 60

(***************************************************************************)
(* Bounds of the exploration                                               *)
(***************************************************************************)
\* learning updates applied since construction or the last reset()
MaxUpdates == 24

\* of these, the updates of rounds whose rewards are not the steady ones,
\* together with the calls made while another call is suspended
MaxVaried == 1

\* learning updates of a run with the wide reward inputs (specification SpecLearn)
MaxTrend == 3

\* largest window size of a stand-alone tracker (specification SpecEMA)
MaxWindow == 3

\* update() calls on a stand-alone tracker since its last reset()
MaxCalls == 5

\* learning rounds next to the table generator
MaxTableRounds == 2

(***************************************************************************)
(* Exact rational arithmetic for the trackers' float averages              *)
(***************************************************************************)
Abs(x) == IF x < 0 THEN -x ELSE x

Min(a, b) == IF a < b THEN a ELSE b

Max(a, b) == IF a > b THEN a ELSE b

RECURSIVE Gcd(_, _)
Gcd(a, b) == IF b = 0 THEN a ELSE Gcd(b, a % b)

\* the rational n/d in lowest terms, d > 0
Rat(n, d) ==
    LET g == Gcd(Abs(n), d)
    IN  IF n = 0 THEN <<0, 1>> ELSE <<n \div g, d \div g>>

RatLess(p, q) == p[1] * q[2] < q[1] * p[2]

RatGeq(p, q) == ~RatLess(p, q)

(***************************************************************************)
(* class EMA                                                               *)
(***************************************************************************)
EMA(window_size) ==
    [window_size |-> window_size, count |-> 0, last_average |-> <<0, 1>>]

\* a count that runs past the window
EMACountUncapped(e) == e.count + 1

\* line 47
EMACount(e) == Min(e.count + 1, e.window_size)

\* an average that always moves by 1/window_size of the difference
EMAAverageByWindow(e, new_value, count) ==
    LET n == e.last_average[1]
        d == e.last_average[2]
    IN  Rat(n * e.window_size + (new_value * d - n), d * e.window_size)

\* last_average + (new_value - last_average) / count, with last_average = n/d
EMAAverage(e, new_value, count) ==
    LET n == e.last_average[1]
        d == e.last_average[2]
    IN  Rat(n * count + (new_value * d - n), d * count)

EMA_update(e, new_value) ==
    LET count == EMACount(e)
    IN  [e EXCEPT !.count = count,
                  !.last_average = EMAAverage(e, new_value, count)]

\* a reset that forgets the count and keeps the average
EMA_reset_count_only(e) == [e EXCEPT !.count = 0]

EMA_reset(e) == [e EXCEPT !.count = 0, !.last_average = <<0, 1>>]

(***************************************************************************)
(* Price tables                                                            *)
(***************************************************************************)
Minutes == 0 .. (MinutesPerDay - 1)

Chunks == 0 .. ((MinutesPerDay \div TableWindow) - 1)

\* range(int(1440 / window_size))
ChunksOf(window_size) == 0 .. ((MinutesPerDay \div window_size) - 1)

RECURSIVE Pow2(_)
Pow2(n) == IF n = 0 THEN 1 ELSE 2 * Pow2(n - 1)

\* 2^n modulo 100
RECURSIVE Pow2Mod100(_)
Pow2Mod100(n) == IF n = 0 THEN 1 ELSE (2 * Pow2Mod100(n - 1)) % 100

RECURSIVE IsPowerOfTwo(_)
IsPowerOfTwo(n) == n = 1 \/ (n > 1 /\ n % 2 = 0 /\ IsPowerOfTwo(n \div 2))

\* the k with 100 <= cents * 2^k < 200, for 0 < cents < 200
RECURSIVE ShiftUp(_)
ShiftUp(cents) == IF cents >= 100 THEN 0 ELSE 1 + ShiftUp(2 * cents)

\* the t with 100 * 2^t <= cents < 200 * 2^t, for cents >= 100
RECURSIVE ShiftDown(_)
ShiftDown(cents) == IF cents < 200 THEN 0 ELSE 1 + ShiftDown(cents \div 2)

\* (cents/100) * 100 in double arithmetic, for a whole number of cents: "exact"
\* when the product is cents, "above" or "below" when it is the double next to
\* cents. cents/100 is mantissa * 2^-shift with a mantissa of 53 bits, the
\* nearest whole number to cents * 2^shift / 100; 100 * mantissa misses
\* cents * 2^shift by at most 50 and is rounded to 53 bits, which are multiples
\* of 64 below 2^59 and of 128 above: the product is off when the miss is more
\* than 32 below 2^59. 0.07 * 100 is 7.000000000000001, 0.14 * 100 is
\* 14.000000000000002, 0.01 * 100 is 1.0.
FloatProduct(cents) ==
    LET up == IF cents < 100 THEN ShiftUp(cents) ELSE 0
        down == IF cents < 100 THEN 0 ELSE ShiftDown(cents)
        shift == (52 + up) - down
        rest == ((cents % 100) * Pow2Mod100(shift)) % 100
        below_2_59 == cents * Pow2(up) < 128 * Pow2(down)
    IN  IF ~below_2_59 \/ rest < 33 \/ rest > 67
        THEN "exact"
        ELSE IF rest > 50 THEN "above" ELSE "below"

\* price * 100 for a price >= 0 in price steps: whether the float is a whole
\* number, and whether the float plus 1 is (randint(a, b) is randrange(a, b + 1)):
\* 7.000000000000001 + 1 is 8.0, the sum being rounded to the doubles above 8.
\* A price that is not a whole number of cents gives neither (0.015 * 100 is 1.5).
TimesHundred(price) ==
    LET cents == price \div StepsPerCent
        product == IF price % StepsPerCent = 0 /\ cents > 0
                   THEN FloatProduct(cents)
                   ELSE IF price = 0 THEN "exact" ELSE "fraction"
    IN  [steps |-> price,
         integral |-> product = "exact",
         stop_integral |-> \/ product = "exact"
                           \/ product = "above" /\ IsPowerOfTwo(cents + 1)]

\* sorted([bid_price*100, ask_price*100])
SortedCents(bid_price, ask_price) ==
    IF bid_price <= ask_price
    THEN <<TimesHundred(bid_price), TimesHundred(ask_price)>>
    ELSE <<TimesHundred(ask_price), TimesHundred(bid_price)>>

\* random.randint(lo, hi) is randrange(lo, hi + 1), which raises ValueError
\* when lo or hi + 1 is not a whole number
RandIntRaises(lo, hi) == ~(lo.integral /\ hi.stop_integral)

\* the values random.randint(lo, hi) can return, int(lo) .. int(hi + 1) - 1:
\* none when it raises
RandInt(lo, hi) ==
    IF RandIntRaises(lo, hi)
    THEN {}
    ELSE (lo.steps \div StepsPerCent) .. (hi.steps \div StepsPerCent)

\* every list of draws [random.randint(lo, hi) for each chunk]
WindowPriceDraws(bid, ask, window_size) ==
    LET range == SortedCents(bid, ask)
    IN  [ChunksOf(window_size) -> RandInt(range[1], range[2])]

\* price_table[i] = [window_price[int(i / window_size)] / 100, 0]
generate_price_table(window_price, window_size) ==
    [i \in Minutes |-> <<window_price[i \div window_size] * StepsPerCent, 0>>]

\* every table __generate_price_table(bid, ask, window_size) can return
GeneratedTables(bid, ask, window_size) ==
    {generate_price_table(window_price, window_size) :
        window_price \in WindowPriceDraws(bid, ask, window_size)}

\* table is a table __generate_price_table(bid, ask, window_size) can return:
\* the draws are read back from the first minute of every chunk
IsGenerated(table, bid, ask, window_size) ==
    /\ DOMAIN table = Minutes
    /\ LET window_price ==
              [c \in ChunksOf(window_size) |->
                  table[c * window_size][1] \div StepsPerCent]
       IN  /\ window_price \in WindowPriceDraws(bid, ask, window_size)
           /\ table = generate_price_table(window_price, window_size)

(***************************************************************************)
(* Timing: a round is <<start, end>> in seconds; both learn() and act()    *)
(* index the price tables by the local minute of day of the round's end.   *)
(***************************************************************************)
UtcOffset(timezone) ==
    CASE timezone = "UTC" -> 0
      [] timezone = "America/Vancouver" -> -(8 * 3600)

\* utils.timestamp_to_local: the local wall-clock hour and minute
timestamp_to_local(timestamp, timezone) ==
    LET local == timestamp + UtcOffset(timezone)
        minute_of_day == (local \div SecondsPerMinute) % MinutesPerDay
    IN  [hour |-> minute_of_day \div 60, minute |-> minute_of_day % 60]

\* an index taken from the round's start instead of its end
TimeIndexOfStart(round, tz) ==
    LET local_time == timestamp_to_local(round[1], tz)
    IN  local_time.hour * 60 + local_time.minute

\* int(local_time.hour * 60 + local_time.minute) of round[1], the round's end
TimeIndex(round, tz) ==
    LET local_time == timestamp_to_local(round[2], tz)
    IN  local_time.hour * 60 + local_time.minute

\* the round of one minute that ends at the given minute of the day
RoundEndingAt(minute) ==
    <<(minute - 1) * SecondsPerMinute, minute * SecondsPerMinute>>

\* the round before a round
RoundBefore(round) == <<round[1] - (round[2] - round[1]), round[1]>>

(***************************************************************************)
(* State                                                                   *)
(***************************************************************************)
VARIABLES
    learning,       \* kwargs['learning']
    storage,        \* 'storage' in self.__participant
    track_metrics,  \* kwargs['track_metrics']
    timezone,       \* self.__participant['timing']['timezone']
    bid_price,      \* constructor argument, in price steps
    ask_price,      \* constructor argument, in price steps
    bid_prices,     \* [minute -> <<price, last_signal>>]
    ask_prices,     \* [minute -> <<price, last_signal>>]
    sma_bid,        \* EMA(23)
    lma_bid,        \* EMA(50)
    sma_ask,        \* EMA(23)
    lma_ask,        \* EMA(50)
    buy_trigger,
    sell_trigger,
    status,         \* self.status
    db,             \* self.__db: the set of its keys
    db_tasks,       \* writes handed to asyncio.create_task, in order
    pending,        \* the bag of suspended coroutines: where each one waits and
                    \* the locals it holds
    pc,             \* "ready" for a step, or how the last step left its call:
                    \* "returned" or "suspended"
    op,             \* the operation whose call ran last, until its result is taken
    args,           \* its inputs (arguments and collaborators' answers)
    ret,            \* how the step ended: [outcome, value]
    updates,        \* tracker updates since construction or the last reset
    varied          \* of these, the ones fed by a round with other than steady rewards

config == <<learning, storage, track_metrics, timezone, bid_price, ask_price, db>>

tables == <<bid_prices, ask_prices>>

trackers == <<sma_bid, lma_bid, sma_ask, lma_ask>>

triggers == <<buy_trigger, sell_trigger>>

vars == <<config, tables, trackers, triggers, status, db_tasks, pending, pc, op,
          args, ret, updates, varied>>

None == <<>>

Returned(value) == [outcome |-> "returned", value |-> value]

Raised(error) == [outcome |-> "raised", value |-> error]

\* suspended in the telemetry of lines 310-318 with the composed actions in hand
Awaiting(value) == [outcome |-> "awaiting", value |-> value]

NoCall == [outcome |-> "none", value |-> None]

(***************************************************************************)
(* Trader.__init__                                                         *)
(***************************************************************************)
\* line 123 with the window of lines 95-96: one independent draw per chunk
WindowPrices(bid, ask) == WindowPriceDraws(bid, ask, TableWindow)

\* every field but sma_bid
TraderFields(bid, ask, kw_learning, kw_track_metrics, has_storage, tz) ==
    /\ status = [weights_loading |-> FALSE, weights_loaded |-> FALSE,
                 weights_saving |-> FALSE, weights_saved |-> TRUE]
    /\ db = {"path", "db"}
    /\ lma_bid = EMA(LmaWindow)
    /\ sma_ask = EMA(SmaWindow)
    /\ lma_ask = EMA(LmaWindow)
    /\ buy_trigger = FALSE
    /\ sell_trigger = FALSE
    /\ bid_price = bid
    /\ ask_price = ask
    /\ IsGenerated(bid_prices, bid, ask, TableWindow)
    /\ IsGenerated(ask_prices, bid, ask, TableWindow)
    /\ learning = kw_learning
    /\ track_metrics = kw_track_metrics
    /\ storage = has_storage
    /\ timezone = tz

Trader_init(bid, ask, kw_learning, kw_track_metrics, has_storage, tz) ==
    /\ TraderFields(bid, ask, kw_learning, kw_track_metrics, has_storage, tz)
    /\ sma_bid = EMA(SmaWindow)

\* the reference prices the agent is constructed with, in price steps:
\* Trader(0.02, 0.02), for which every draw of line 123 is randint(2.0, 2.0)
\* and the constructor returns one agent per configuration
ReferencePrices == {<<20, 20>>}

\* <<learning, track_metrics, storage>>: every pair of the three options occurs
Configurations ==
    {<<TRUE, FALSE, TRUE>>, <<TRUE, TRUE, FALSE>>,
     <<FALSE, TRUE, TRUE>>, <<FALSE, FALSE, FALSE>>}

\* no call made yet
Fresh ==
    /\ db_tasks = <<>>
    /\ pending = EmptyBag
    /\ pc = "ready"
    /\ op = "init"
    /\ args = None
    /\ ret = NoCall
    /\ updates = 0
    /\ varied = 0

\* every agent the constructor can return for the reference prices and the
\* configurations, whatever the random source draws: lines 95-96 draw the two
\* tables one after the other, each chunk on its own
Init ==
    /\ \E prices \in ReferencePrices, c \in Configurations :
          /\ bid_prices \in GeneratedTables(prices[1], prices[2], TableWindow)
          /\ ask_prices \in GeneratedTables(prices[1], prices[2], TableWindow)
          /\ Trader_init(prices[1], prices[2], c[1], c[2], c[3], "UTC")
    /\ Fresh

(***************************************************************************)
(* Trader.learn                                                            *)
(***************************************************************************)
\* an ask price that drops by a step whatever the realized profit
NextAskPriceUnclamped(entry, unit_profit, unit_profit_diff) ==
    IF unit_profit_diff <= 0
    THEN entry[1] - price_adj_step
    ELSE IF unit_profit_diff - entry[2] > 0
         THEN entry[1] + price_adj_step
         ELSE entry[1] - price_adj_step

\* lines 150-156: the slot's ask price after the round
NextAskPrice(entry, unit_profit, unit_profit_diff) ==
    IF unit_profit_diff <= 0
    THEN Max(unit_profit, entry[1] - price_adj_step)
    ELSE IF unit_profit_diff - entry[2] > 0
         THEN entry[1] + price_adj_step
         ELSE entry[1] - price_adj_step

\* lines 159-165: the slot's bid price after the round
\* a bid price that follows the trend the way the ask price does
NextBidPriceLikeAsk(entry, unit_cost, unit_cost_diff) ==
    IF unit_cost_diff >= 0
    THEN Min(unit_cost, entry[1] + price_adj_step)
    ELSE IF unit_cost_diff - entry[2] > 0
         THEN entry[1] + price_adj_step
         ELSE entry[1] - price_adj_step

NextBidPrice(entry, unit_cost, unit_cost_diff) ==
    IF unit_cost_diff >= 0
    THEN Min(unit_cost, entry[1] + price_adj_step)
    ELSE IF unit_cost_diff - entry[2] > 0
         THEN entry[1] - price_adj_step
         ELSE entry[1] + price_adj_step

\* a learn() that goes on to the reward calculator whatever the flag
LearnsWhateverTheFlag(is_learning) == FALSE

\* lines 129-130: learn() returns at once
ReturnsAtOnce(is_learning) == ~is_learning

\* a learn() coroutine suspended in `await self._rewards.calculate()`
LearnAt132 == [op |-> "learn", at |-> 132]

\* lines 128-132: the call, up to the await
learn_call ==
    /\ pc = "ready"
    /\ IF ReturnsAtOnce(learning)
       THEN /\ op' = "learn"
            /\ args' = [rewards |-> None, last_deliver |-> None]
            /\ ret' = Returned(None)
            /\ pc' = "returned"
            /\ UNCHANGED pending
       ELSE /\ pending' = pending (+) SetToBag({LearnAt132})
            /\ UNCHANGED <<pc, op, args, ret>>
    /\ UNCHANGED <<config, tables, trackers, triggers, status, db_tasks, updates>>

\* lines 132-173: a suspended learn() is resumed with the reward calculator's
\* answer, None or <<unit_profit, unit_profit_diff, unit_cost, unit_cost_diff>>,
\* reads timing['last_deliver'] as it is then (line 136) and runs to its end
learn(rewards, last_deliver) ==
    /\ pc = "ready"
    /\ BagIn(LearnAt132, pending)
    /\ pending' = pending (-) SetToBag({LearnAt132})
    /\ op' = "learn"
    /\ args' = [rewards |-> rewards, last_deliver |-> last_deliver]
    /\ ret' = Returned(None)
    /\ IF rewards = None
       THEN UNCHANGED <<tables, trackers, updates>>
       ELSE LET time_index == TimeIndex(last_deliver, timezone)
                ask == NextAskPrice(ask_prices[time_index], rewards[1], rewards[2])
                bid == NextBidPrice(bid_prices[time_index], rewards[3], rewards[4])
            IN  /\ ask_prices' = [ask_prices EXCEPT ![time_index] = <<ask, rewards[2]>>]
                /\ bid_prices' = [bid_prices EXCEPT ![time_index] = <<bid, rewards[4]>>]
                /\ sma_bid' = EMA_update(sma_bid, bid)
                /\ lma_bid' = EMA_update(lma_bid, bid)
                /\ sma_ask' = EMA_update(sma_ask, ask)
                /\ lma_ask' = EMA_update(lma_ask, ask)
                /\ updates' = updates + 1
    /\ pc' = "returned"
    /\ UNCHANGED <<config, triggers, status, db_tasks>>

(***************************************************************************)
(* Trader.reset                                                            *)
(***************************************************************************)
\* a reset() that clears the triggers along with the trackers
reset_with_triggers ==
    /\ pc = "ready"
    /\ op' = "reset"
    /\ args' = None
    /\ ret' = Returned(TRUE)
    /\ lma_bid' = EMA_reset(lma_bid)
    /\ lma_ask' = EMA_reset(lma_ask)
    /\ sma_bid' = EMA_reset(sma_bid)
    /\ sma_ask' = EMA_reset(sma_ask)
    /\ buy_trigger' = FALSE
    /\ sell_trigger' = FALSE
    /\ updates' = 0
    /\ pc' = "returned"
    /\ UNCHANGED <<config, tables, status, db_tasks, pending>>

reset ==
    /\ pc = "ready"
    /\ op' = "reset"
    /\ args' = None
    /\ ret' = Returned(TRUE)
    /\ lma_bid' = EMA_reset(lma_bid)
    /\ lma_ask' = EMA_reset(lma_ask)
    /\ sma_bid' = EMA_reset(sma_bid)
    /\ sma_ask' = EMA_reset(sma_ask)
    /\ updates' = 0
    /\ pc' = "returned"
    /\ UNCHANGED <<config, tables, triggers, status, db_tasks, pending>>

(***************************************************************************)
(* Trader.act                                                              *)
(***************************************************************************)
\* a dict with the entry key: value added or replaced
Put(dict, key, value) ==
    [k \in (DOMAIN dict) \cup {key} |-> IF k = key THEN value ELSE dict[k]]

EmptyDict == <<>>

\* actions['bess'][key] = quantity, creating actions['bess'] when it is missing
PutBess(actions, key, quantity) ==
    IF "bess" \in DOMAIN actions
    THEN Put(actions, "bess", Put(actions["bess"], key, quantity))
    ELSE Put(actions, "bess", Put(EmptyDict, key, quantity))

Order(quantity, price) ==
    [quantity |-> quantity, source |-> "solar", price |-> price]

\* a reconciliation that charges what was bought beyond the load, unclamped
ReconciledUnclamped(actions, current_round, ls_storage_scheduled, ls_residual_load, settled) ==
    IF ls_storage_scheduled > 0
    THEN Put(actions, "bess",
             Put(EmptyDict, current_round, settled.bids - ls_residual_load))
    ELSE IF ls_storage_scheduled < 0
         THEN Put(actions, "bess",
                  Put(EmptyDict, current_round, ls_storage_scheduled - settled.asks))
         ELSE actions

\* lines 219-225: the storage schedule of the round that just settled
Reconciled(actions, current_round, ls_storage_scheduled, ls_residual_load, settled) ==
    IF ls_storage_scheduled > 0
    THEN Put(actions, "bess",
             Put(EmptyDict, current_round,
                 Min(ls_storage_scheduled,
                     Max(0, settled.bids - Max(0, ls_residual_load)))))
    ELSE IF ls_storage_scheduled < 0
         THEN Put(actions, "bess",
                  Put(EmptyDict, current_round, ls_storage_scheduled - settled.asks))
         ELSE actions

\* a discharge of everything the storage can deliver, whatever the load
EffectiveDischargeUncapped(next_residual_load, max_discharge) == max_discharge

\* line 234
EffectiveDischarge(next_residual_load, max_discharge) ==
    Max(-Max(0, next_residual_load), max_discharge)

\* line 237
BuyCondition(sma, lma, projected_soc) ==
    RatLess(sma.last_average, lma.last_average) /\ projected_soc < SocBuyBelow

\* line 242
SellCondition(sma, lma, projected_soc) ==
    RatGeq(sma.last_average, lma.last_average) /\ projected_soc > SocSellAbove

\* a tie-break that keeps the buy trigger
TieBreakBuyWins(buy, sell) == IF buy /\ sell THEN <<TRUE, FALSE>> ELSE <<buy, sell>>

\* lines 247-249: <<buy_trigger, sell_trigger>> once both have been evaluated
TieBreak(buy, sell) == IF buy /\ sell THEN <<FALSE, TRUE>> ELSE <<buy, sell>>

\* lines 237-249
EvaluatedTriggers(projected_soc) ==
    TieBreak(BuyCondition(sma_bid, lma_bid, projected_soc),
             SellCondition(sma_ask, lma_ask, projected_soc))

\* triggers evaluated in every round of an agent with storage
TriggersEveryRound(next_residual_load, projected_soc) ==
    IF storage
    THEN EvaluatedTriggers(projected_soc)
    ELSE <<buy_trigger, sell_trigger>>

\* lines 230-249: <<buy_trigger, sell_trigger>> after the call; the evaluation
\* sits inside the branch of a positive residual load of an agent with storage
TriggersAfter(next_residual_load, projected_soc) ==
    IF next_residual_load > 0 /\ storage
    THEN EvaluatedTriggers(projected_soc)
    ELSE <<buy_trigger, sell_trigger>>

\* a buy branch that leaves the discharge scheduled
ChargeNotScheduled(actions, key, max_charge) == actions

\* lines 269-272
ChargeScheduled(actions, key, max_charge) == PutBess(actions, key, max_charge)

\* lines 230-294: the branch of a positive residual load;
\* trig is <<buy_trigger, sell_trigger>> as the branch reads them
LoadBranch(actions, in, next_residual_load, trig, time_index) ==
    LET max_charge == IF storage THEN in.energy_potential[2] ELSE 0
        max_discharge == IF storage THEN in.energy_potential[1] ELSE 0
        effective_discharge ==
            IF storage THEN EffectiveDischarge(next_residual_load, max_discharge) ELSE 0
        residual_discharge == max_discharge - effective_discharge
        scheduled ==
            IF storage THEN PutBess(actions, in.next_settle, effective_discharge)
            ELSE actions
        final_residual_load == next_residual_load + effective_discharge
    IN  IF trig[1]
        THEN ChargeScheduled(Put(scheduled, "bids",
                                 Put(EmptyDict, in.next_settle,
                                     Order(next_residual_load + max_charge,
                                           bid_prices[time_index][1]))),
                             in.next_settle, max_charge)
        ELSE IF final_residual_load > 0
             THEN Put(scheduled, "bids",
                      Put(EmptyDict, in.next_settle,
                          Order(final_residual_load, bid_prices[time_index][1])))
             ELSE IF residual_discharge < 0 /\ trig[2]
                  THEN Put(scheduled, "asks",
                           Put(EmptyDict, in.next_settle,
                               Order(Abs(residual_discharge),
                                     ask_prices[time_index][1])))
                  ELSE scheduled

\* an ask priced from the bid table
GenerationBranchAtBidPrice(actions, in, next_residual_gen, time_index) ==
    Put(actions, "asks",
        Put(EmptyDict, in.next_settle,
            Order(next_residual_gen, bid_prices[time_index][1])))

\* lines 296-307: the branch of a positive residual generation
GenerationBranch(actions, in, next_residual_gen, time_index) ==
    Put(actions, "asks",
        Put(EmptyDict, in.next_settle,
            Order(next_residual_gen, ask_prices[time_index][1])))

\* lines 200-307: the triggers and the action set the round composes
Composed(in) ==
    LET time_index == TimeIndex(in.next_settle, timezone)
        next_residual_load == in.next_profile[2] - in.next_profile[1]
        next_residual_gen == -next_residual_load
        current_round == in.current_round
        ls_residual_load == in.ls_profile[2] - in.ls_profile[1]
        reconciled ==
            IF storage
            THEN Reconciled(EmptyDict, current_round, in.energy_scheduled,
                            ls_residual_load, in.settled)
            ELSE EmptyDict
        trig == TriggersAfter(next_residual_load, in.projected_soc)
    IN  [triggers |-> trig,
         actions |->
            IF next_residual_load > 0
            THEN LoadBranch(reconciled, in, next_residual_load, trig, time_index)
            ELSE IF next_residual_gen > 0
                 THEN GenerationBranch(reconciled, in, next_residual_gen, time_index)
                 ELSE reconciled]

\* an act() coroutine suspended in the awaits of lines 206, 213, 215 and 227
\* (read_profile, check_schedule): between them it touches no field of the
\* agent, so the four waits are one place
ActAt206(next_settle) == [op |-> "act", at |-> 206, next_settle |-> next_settle]

\* an act() coroutine suspended in the awaits of lines 310-318 (metrics.track,
\* metrics.save), holding the inputs it read and the actions it composed
ActAt310(in, actions) == [op |-> "act", at |-> 310, in |-> in, actions |-> actions]

\* lines 200-206: the call, up to the first await; line 202 raises KeyError
\* when market_info has no entry for next_settle
act_call(next_settle, market_info) ==
    /\ pc = "ready"
    /\ IF ~market_info
       THEN /\ op' = "act"
            /\ args' = [next_settle |-> next_settle, market_info |-> FALSE]
            /\ ret' = Raised("KeyError")
            /\ pc' = "returned"
            /\ UNCHANGED pending
       ELSE /\ pending' = pending (+) SetToBag({ActAt206(next_settle)})
            /\ UNCHANGED <<pc, op, args, ret>>
    /\ UNCHANGED <<config, tables, trackers, triggers, status, db_tasks, updates>>

\* lines 206-310: an act() suspended in its prologue is resumed with the
\* collaborators' answers in, reads the tables, the trackers and the triggers as
\* they are then, writes the triggers and composes its actions; it returns
\* them (line 319), or with track_metrics is suspended again at line 310
act(in) ==
    LET composed == Composed(in)
        waiting == ActAt206(in.next_settle)
    IN  /\ pc = "ready"
        /\ BagIn(waiting, pending)
        /\ op' = "act"
        /\ args' = in
        /\ buy_trigger' = composed.triggers[1]
        /\ sell_trigger' = composed.triggers[2]
        /\ IF track_metrics
           THEN /\ pending' = (pending (-) SetToBag({waiting}))
                                  (+) SetToBag({ActAt310(in, composed.actions)})
                /\ ret' = Awaiting(composed.actions)
                /\ pc' = "suspended"
           ELSE /\ pending' = pending (-) SetToBag({waiting})
                /\ ret' = Returned(composed.actions)
                /\ pc' = "returned"
        /\ UNCHANGED <<config, tables, trackers, status, db_tasks, updates>>

\* lines 310-319: how the awaited telemetry calls end the round
ActOutcome(sink, actions) ==
    IF sink = "ok" THEN Returned(actions) ELSE Raised(sink)

\* lines 310-319: an act() suspended in its telemetry is resumed when the sink
\* has answered; a sink that never answers ("save_hangs") never resumes it
act_return(suspended, sink) ==
    /\ pc = "ready"
    /\ BagIn(suspended, pending)
    /\ suspended.at = 310
    /\ sink # "save_hangs"
    /\ pending' = pending (-) SetToBag({suspended})
    /\ op' = "act"
    /\ args' = [in |-> suspended.in, actions |-> suspended.actions, sink |-> sink]
    /\ ret' = ActOutcome(sink, suspended.actions)
    /\ pc' = "returned"
    /\ UNCHANGED <<config, tables, trackers, triggers, status, db_tasks, updates>>

(***************************************************************************)
(* Trader.save_weights                                                     *)
(***************************************************************************)
\* the string 'validation', a string being the sequence of its characters
Validation == <<"v", "a", "l", "i", "d", "a", "t", "i", "o", "n">>

\* 'validation' in market_id: the substring test of str
IsValidation(market_id) ==
    \E i \in 1 .. (Len(market_id) - Len(Validation) + 1) :
        SubSeq(market_id, i, i + Len(Validation) - 1) = Validation

\* str(table): the text of the table, not the table
Str(value) == [str |-> value]

save_weights(market_id, generation, output_db) ==
    /\ pc = "ready"
    /\ op' = "save_weights"
    /\ args' = [market_id |-> market_id, generation |-> generation,
                output_db |-> output_db]
    /\ pc' = "returned"
    /\ IF IsValidation(market_id)
       THEN /\ ret' = Returned(TRUE)
            /\ UNCHANGED <<status, db_tasks>>
       ELSE IF "table" \in db
            THEN /\ db_tasks' = Append(db_tasks,
                                       [generation |-> generation,
                                        bid_prices |-> Str(bid_prices),
                                        ask_prices |-> Str(ask_prices),
                                        output_db |-> output_db])
                 /\ status' = [status EXCEPT !.weights_saving = FALSE,
                                             !.weights_saved = TRUE]
                 /\ ret' = Returned(TRUE)
            ELSE \* self.__db['table'] raises KeyError after lines 329-330
                 /\ status' = [status EXCEPT !.weights_saving = TRUE,
                                             !.weights_saved = FALSE]
                 /\ ret' = Raised("KeyError")
                 /\ UNCHANGED db_tasks
    /\ UNCHANGED <<config, tables, trackers, triggers, updates, pending>>

(***************************************************************************)
(* The host: it calls the four operations, resumes the suspended           *)
(* coroutines in any order, and takes each result before the next step     *)
(***************************************************************************)
\* the reward calculator's answers: None, or
\* <<unit_profit, unit_profit_diff, unit_cost, unit_cost_diff>>
SteadyRewards == <<20, 0, 20, 0>>

VariedRewards == {<<21, 0, 19, 0>>, <<19, 0, 19, 0>>}

Delivers == {RoundEndingAt(15)}

Settles == {RoundEndingAt(15), RoundEndingAt(MinutesPerDay)}

\* <<generation, load>> of the next settlement
Profiles == {<<5, 0>>, <<0, 0>>, <<0, 3>>, <<0, 10>>}

\* <<max_discharge, max_charge>>
Potentials == {<<-4, 3>>, <<-1, 0>>}

Socs == {30, 50, 90}

NoSettlement ==
    [energy_scheduled |-> 0, ls_profile |-> <<0, 0>>, settled |-> [bids |-> 0, asks |-> 0]]

\* the settled round: scheduled energy, <<generation, load>>, settled quantities
Settlements ==
    {NoSettlement,
     [energy_scheduled |-> 3, ls_profile |-> <<1, 0>>, settled |-> [bids |-> 2, asks |-> 0]],
     [energy_scheduled |-> 3, ls_profile |-> <<0, 1>>, settled |-> [bids |-> 0, asks |-> 0]],
     [energy_scheduled |-> 3, ls_profile |-> <<0, 0>>, settled |-> [bids |-> 5, asks |-> 0]],
     [energy_scheduled |-> -2, ls_profile |-> <<1, 0>>, settled |-> [bids |-> 0, asks |-> 1]]}

\* how the sink answers the telemetry of a round
MetricsOutcomes == {"ok", "track_raises", "save_hangs"}

ActInput(next_settle, profile, potential, soc, settlement) ==
    [next_settle |-> next_settle,
     current_round |-> RoundBefore(next_settle),
     next_profile |-> profile,
     ls_profile |-> settlement.ls_profile,
     energy_scheduled |-> settlement.energy_scheduled,
     settled |-> settlement.settled,
     energy_potential |-> potential,
     projected_soc |-> soc]

\* Without a storage collaborator its answers do not exist. The storage's
\* potential and state of charge vary where the round reads them (a positive
\* residual load), one at a time, and the settled round varies for one
\* next_settle, potential and state of charge.
ActInputs ==
    {in \in {ActInput(n, p, e, s, l) :
                n \in Settles, p \in Profiles,
                e \in IF storage THEN Potentials ELSE {<<0, 0>>},
                s \in IF storage THEN Socs ELSE {0},
                l \in IF storage THEN Settlements ELSE {NoSettlement}} :
        /\ in.next_profile[2] > in.next_profile[1]
              \/ ~storage
              \/ (in.energy_potential = <<-4, 3>> /\ in.projected_soc = 50)
        /\ ~storage \/ in.energy_potential = <<-4, 3>> \/ in.projected_soc = 50
        /\ in.energy_scheduled = 0
              \/ /\ in.next_settle = RoundEndingAt(15)
                 /\ in.energy_potential = <<-4, 3>>
                 /\ in.projected_soc = 50}

\* the rounds composed while another coroutine is suspended
OverlapActInputs ==
    {ActInput(RoundEndingAt(15), p, IF storage THEN <<-4, 3>> ELSE <<0, 0>>,
              s, NoSettlement) :
        p \in {<<0, 3>>, <<0, 10>>}, s \in IF storage THEN {30, 50} ELSE {0}}

\* the coroutines suspended in the prologue of act()
Waiting == {w \in BagToSet(pending) : w.at = 206}

\* the coroutines suspended in the telemetry of act()
Tracking == {w \in BagToSet(pending) : w.at = 310}

\* a call made while another call is suspended counts as a varied round; a
\* call suspended in its telemetry is overlapped when it holds one of the
\* rounds of OverlapActInputs
Overlap ==
    IF pending = EmptyBag
    THEN UNCHANGED varied
    ELSE /\ varied < MaxVaried
         /\ \A w \in Tracking : w.in \in OverlapActInputs
         /\ varied' = varied + 1

\* 'training', 'sim-validation-1' and 'valid'
MarketIds ==
    {<<"t", "r", "a", "i", "n", "i", "n", "g">>,
     <<"s", "i", "m", "-">> \o Validation \o <<"-", "1">>,
     <<"v", "a", "l", "i", "d">>}

LearnCall == learn_call /\ Overlap

\* a call made while no other call is suspended
LearnCallAlone == learn_call /\ pending = EmptyBag /\ UNCHANGED varied

Learn ==
    /\ pc = "ready"
    /\ BagIn(LearnAt132, pending)
    /\ \E rewards \in {None, SteadyRewards} \cup VariedRewards, last_deliver \in Delivers :
          /\ rewards # None => updates < MaxUpdates
          /\ learn(rewards, last_deliver)
          /\ IF rewards \notin {None, SteadyRewards}
             THEN varied < MaxVaried /\ varied' = varied + 1
             ELSE UNCHANGED varied

ActCall ==
    /\ \E next_settle \in Settles, market_info \in BOOLEAN :
          act_call(next_settle, market_info)
    /\ Overlap

ActCallAlone ==
    /\ \E next_settle \in Settles, market_info \in BOOLEAN :
          act_call(next_settle, market_info)
    /\ pending = EmptyBag
    /\ UNCHANGED varied

Act ==
    /\ pc = "ready"
    /\ \E w \in Waiting :
          \E in \in IF BagCardinality(pending) > 1 THEN OverlapActInputs ELSE ActInputs :
             in.next_settle = w.next_settle /\ act(in)
    /\ UNCHANGED varied

ActReturn ==
    /\ pc = "ready"
    /\ \E suspended \in Tracking, sink \in MetricsOutcomes : act_return(suspended, sink)
    /\ UNCHANGED varied

SaveWeights ==
    /\ \E market_id \in MarketIds : save_weights(market_id, 0, "output_db")
    /\ Overlap

Reset ==
    /\ reset
    /\ IF pending = EmptyBag THEN varied' = 0 ELSE Overlap

\* spec section 5: the host takes the result of a step before it makes the next
Handover ==
    /\ pc \in {"returned", "suspended"}
    /\ pc' = "ready"
    /\ op' = "none"
    /\ args' = None
    /\ ret' = NoCall
    /\ UNCHANGED <<config, tables, trackers, triggers, status, db_tasks, pending,
                   updates, varied>>

Next ==
    LearnCall \/ Learn \/ ActCall \/ Act \/ ActReturn \/ SaveWeights \/ Reset \/ Handover

Spec == Init /\ [][Next]_vars

(***************************************************************************)
(* SpecLearn: a few learning rounds with rewards of every kind, at two     *)
(* minutes of the day                                                      *)
(***************************************************************************)
WideRewards ==
    {None, <<15, 0, 25, 0>>, <<25, -1, 15, 1>>, <<20, 1, 20, -1>>, <<20, 2, 20, -2>>,
     <<25, 0, 20, -1>>, <<20, 1, 15, 0>>}

WideDelivers == {RoundEndingAt(15), RoundEndingAt(MinutesPerDay)}

LearnWide ==
    /\ pc = "ready"
    /\ BagIn(LearnAt132, pending)
    /\ \E rewards \in WideRewards, last_deliver \in WideDelivers :
          /\ rewards # None => updates < MaxTrend
          /\ learn(rewards, last_deliver)
    /\ UNCHANGED varied

NextLearn == LearnCallAlone \/ LearnWide \/ Handover

SpecLearn == Init /\ [][NextLearn]_vars

(***************************************************************************)
(* SpecEMA: one tracker of a small window on its own, in sma_bid           *)
(***************************************************************************)
TrackedValues == {10, 20, 25}

InitEMA ==
    /\ \E prices \in ReferencePrices :
          /\ bid_prices \in GeneratedTables(prices[1], prices[2], TableWindow)
          /\ ask_prices \in GeneratedTables(prices[1], prices[2], TableWindow)
          /\ TraderFields(prices[1], prices[2], FALSE, FALSE, FALSE, "UTC")
    /\ \E window_size \in 1 .. MaxWindow : sma_bid = EMA(window_size)
    /\ Fresh

Update ==
    /\ updates < MaxCalls
    /\ \E new_value \in TrackedValues :
          /\ sma_bid' = EMA_update(sma_bid, new_value)
          /\ args' = [new_value |-> new_value]
    /\ op' = "update"
    /\ updates' = updates + 1
    /\ UNCHANGED <<config, tables, lma_bid, sma_ask, lma_ask, triggers, status,
                   db_tasks, pending, pc, ret, varied>>

ResetEMA ==
    /\ sma_bid' = EMA_reset(sma_bid)
    /\ args' = None
    /\ op' = "reset"
    /\ updates' = 0
    /\ UNCHANGED <<config, tables, lma_bid, sma_ask, lma_ask, triggers, status,
                   db_tasks, pending, pc, ret, varied>>

NextEMA == Update \/ ResetEMA

SpecEMA == InitEMA /\ [][NextEMA]_vars

(***************************************************************************)
(* SpecTable: the table generator called with either order of the          *)
(* reference prices and with several windows, next to a few rounds of the  *)
(* agent                                                                   *)
(***************************************************************************)
\* reference prices in either order, in price steps; 0.015 * 100 is not a whole
\* number, and 0.07 * 100 is none as the lower bound of the draw and serves as
\* the upper bound
TablePrices == {<<10, 30>>, <<30, 10>>, <<70, 150>>, <<15, 20>>, <<60, 70>>}

\* windows that divide the minutes of a day
TableWindows == {480, 720, MinutesPerDay}

generate(bid, ask, window_size) ==
    /\ pc = "ready"
    /\ op' = "generate_price_table"
    /\ args' = [bid_price |-> bid, ask_price |-> ask, window_size |-> window_size]
    /\ IF RandIntRaises(SortedCents(bid, ask)[1], SortedCents(bid, ask)[2])
       THEN ret' = Raised("ValueError")
       ELSE \E window_price \in WindowPriceDraws(bid, ask, window_size) :
               ret' = Returned(generate_price_table(window_price, window_size))
    /\ pc' = "returned"
    /\ UNCHANGED <<config, tables, trackers, triggers, status, db_tasks, pending,
                   updates, varied>>

\* the function reads and writes no field of the agent: it is applied while no
\* coroutine is suspended
Generate ==
    /\ pending = EmptyBag
    /\ \E prices \in TablePrices, window_size \in TableWindows :
          generate(prices[1], prices[2], window_size)

\* rewards whose slot prices settle, so that resets do not let the tables drift
TableRewards == {None, <<35, -1, 25, 1>>}

LearnTable ==
    /\ pc = "ready"
    /\ BagIn(LearnAt132, pending)
    /\ \E rewards \in TableRewards, last_deliver \in Delivers :
          /\ rewards # None => updates < MaxTableRounds
          /\ learn(rewards, last_deliver)
    /\ UNCHANGED varied

\* rounds without a settled storage schedule
TableActInputs ==
    {in \in ActInputs :
        /\ in.energy_scheduled = 0
        /\ in.next_settle = RoundEndingAt(15)
        /\ in.projected_soc = 50
        /\ in.energy_potential \in {<<-4, 3>>, <<0, 0>>}}

ActTable ==
    /\ pc = "ready"
    /\ \E w \in Waiting :
          \E in \in IF BagCardinality(pending) > 1 THEN OverlapActInputs ELSE TableActInputs :
             in.next_settle = w.next_settle /\ act(in)
    /\ UNCHANGED varied

NextTable ==
    Generate \/ LearnCall \/ LearnTable \/ ActCall \/ ActTable \/ ActReturn \/ Reset
        \/ Handover

SpecTable == Init /\ [][NextTable]_vars

(***************************************************************************)
(* SpecAct: act() on a wide range of rounds, before and after a few        *)
(* learning rounds                                                         *)
(***************************************************************************)
\* <<generation, load>> of the next settlement
WideProfiles == {<<5, 0>>, <<0, 0>>, <<2, 2>>, <<0, 3>>, <<1, 5>>, <<0, 10>>}

\* <<max_discharge, max_charge>>
WidePotentials == {<<-4, 3>>, <<-3, 0>>, <<-1, 0>>, <<0, 0>>, <<-10, 5>>}

WideSocs == {30, 31, 50, 90}

\* the settled round: scheduled energy, <<generation, load>>, settled quantities
WideSettlements ==
    {[energy_scheduled |-> s, ls_profile |-> p, settled |-> [bids |-> b, asks |-> a]] :
        s \in {-2, 0, 3}, p \in {<<0, 1>>, <<0, 0>>, <<1, 0>>}, b \in {0, 2, 5},
        a \in {0, 1}}

\* The storage's answers about next_settle vary with the settled round left
\* out, and the settled round varies for one storage answer.
WideActInputs ==
    IF storage
    THEN {ActInput(n, p, e, s, NoSettlement) :
            n \in Settles, p \in WideProfiles, e \in WidePotentials, s \in WideSocs}
         \cup
         {ActInput(RoundEndingAt(15), p, <<-4, 3>>, 50, l) :
            p \in Profiles, l \in WideSettlements}
    ELSE {ActInput(n, p, <<0, 0>>, 0, NoSettlement) :
            n \in Settles, p \in WideProfiles}

ActWide ==
    /\ pc = "ready"
    /\ \E w \in Waiting :
          \E in \in IF BagCardinality(pending) > 1 THEN OverlapActInputs ELSE WideActInputs :
             in.next_settle = w.next_settle /\ act(in)
    /\ UNCHANGED varied

NextAct ==
    ActCallAlone \/ ActWide \/ ActReturn \/ LearnCallAlone \/ LearnTable \/ Handover

SpecAct == Init /\ [][NextAct]_vars

(***************************************************************************)
(* Properties                                                              *)
(***************************************************************************)
\* an act() call has composed its action set, ret.value, from the inputs args
\* and the state as it is: it returned the set, or awaits the telemetry with it
ActComposed ==
    /\ op = "act"
    /\ pc \in {"returned", "suspended"}
    /\ "next_profile" \in DOMAIN args

\* an act() call has ended after its telemetry
ActAfterTelemetry == op = "act" /\ pc = "returned" /\ "sink" \in DOMAIN args

\* after telemetry calls that all completed, act() returns the action set it
\* composed before them
ReturnsComposed ==
    (ActAfterTelemetry /\ args.sink = "ok") =>
        (ret.outcome = "returned" /\ ret.value = args.actions)

ResidualLoad == args.next_profile[2] - args.next_profile[1]

ResidualGeneration == args.next_profile[1] - args.next_profile[2]

\* the minute of the day at which a round ends, the agent's timezone being UTC
MinuteOfDay(round) == (round[2] \div 60) % 1440

\* the four trackers hold their constructed values
TrackersCleared ==
    \A e \in {sma_bid, lma_bid, sma_ask, lma_ask} :
        e.count = 0 /\ e.last_average = <<0, 1>>

\* C1: without storage and with a positive residual load, act() returns exactly
\* one bid for next_settle, for the full residual load, at the bid price learned
\* for next_settle's minute of the day, with source 'solar', and neither an
\* 'asks' nor a 'bess' entry.
C1_FullBidWithoutStorage ==
    /\ ReturnsComposed
    /\ (ActComposed /\ ~storage /\ ResidualLoad > 0) =>
           /\ DOMAIN ret.value = {"bids"}
           /\ DOMAIN ret.value["bids"] = {args.next_settle}
           /\ ret.value["bids"][args.next_settle] =
                 [quantity |-> ResidualLoad, source |-> "solar",
                  price |-> bid_prices[MinuteOfDay(args.next_settle)][1]]

\* C1 witness: a bid of 10 at a learned price (19, the slot started at 20)
\* returned without storage, after learning and after the telemetry of the round.
C1_Witness ==
    /\ ActAfterTelemetry /\ args.sink = "ok"
    /\ ~storage /\ args.in.next_profile = <<0, 10>> /\ updates > 0
    /\ ret.outcome = "returned"
    /\ "bids" \in DOMAIN ret.value
    /\ ret.value["bids"][args.in.next_settle].quantity = 10
    /\ ret.value["bids"][args.in.next_settle].price = 19

\* C2: with storage, a positive residual load R and the buy trigger true in this
\* call, act() returns a bid for next_settle of R + max_charge at the learned bid
\* price, schedules bess[next_settle] = max_charge and issues no ask.
C2_BuyChargesStorage ==
    /\ ReturnsComposed
    /\ (ActComposed /\ storage /\ ResidualLoad > 0 /\ buy_trigger) =>
           /\ "bids" \in DOMAIN ret.value
           /\ DOMAIN ret.value["bids"] = {args.next_settle}
           /\ ret.value["bids"][args.next_settle] =
                 [quantity |-> ResidualLoad + args.energy_potential[2],
                  source |-> "solar",
                  price |-> bid_prices[MinuteOfDay(args.next_settle)][1]]
           /\ "bess" \in DOMAIN ret.value
           /\ args.next_settle \in DOMAIN ret.value["bess"]
           /\ ret.value["bess"][args.next_settle] = args.energy_potential[2]
           /\ "asks" \notin DOMAIN ret.value

\* C2 witness: residual load 10, max_charge 3, max_discharge -4, buy trigger
\* true: a bid of 13 and a scheduled charge of 3.
C2_Witness ==
    /\ ActComposed /\ storage /\ ResidualLoad = 10 /\ buy_trigger
    /\ args.energy_potential = <<-4, 3>>
    /\ ret.outcome = "returned"
    /\ ret.value["bids"][args.next_settle].quantity = 13
    /\ ret.value["bess"][args.next_settle] = 3

\* C3 as stated: with a positive residual generation, act() returns an ask for
\* next_settle of the full residual generation at the learned ask price, source
\* 'solar', and the action set has no 'bids' entry and no 'bess' entry, with or
\* without storage and whatever the storage schedule of the settled round.
C3_AskOnly ==
    /\ ReturnsComposed
    /\ (ActComposed /\ ResidualGeneration > 0) =>
           /\ "asks" \in DOMAIN ret.value
           /\ DOMAIN ret.value["asks"] = {args.next_settle}
           /\ ret.value["asks"][args.next_settle] =
                 [quantity |-> ResidualGeneration, source |-> "solar",
                  price |-> ask_prices[MinuteOfDay(args.next_settle)][1]]
           /\ "bids" \notin DOMAIN ret.value
           /\ "bess" \notin DOMAIN ret.value

\* C3 amended: with a positive residual generation, act() returns that ask, no
\* 'bids' entry and no 'bess' entry for next_settle; a 'bess' entry is present,
\* for current_round alone, exactly when storage is configured and the storage
\* schedule of the settled round is not zero.
C3_AskAndReconciliationOnly ==
    /\ ReturnsComposed
    /\ (ActComposed /\ ResidualGeneration > 0) =>
           /\ "asks" \in DOMAIN ret.value
           /\ DOMAIN ret.value["asks"] = {args.next_settle}
           /\ ret.value["asks"][args.next_settle] =
                 [quantity |-> ResidualGeneration, source |-> "solar",
                  price |-> ask_prices[MinuteOfDay(args.next_settle)][1]]
           /\ "bids" \notin DOMAIN ret.value
           /\ ("bess" \in DOMAIN ret.value) <=> (storage /\ args.energy_scheduled # 0)
           /\ "bess" \in DOMAIN ret.value =>
                 DOMAIN ret.value["bess"] = {args.current_round}

\* C3 witness: an ask of 5 at a learned price (21, the slot started at 20)
\* returned together with the reconciled schedule of the settled round.
C3_Witness ==
    /\ ActComposed /\ storage /\ ResidualGeneration = 5
    /\ ret.outcome = "returned"
    /\ ret.value["asks"][args.next_settle].quantity = 5
    /\ ret.value["asks"][args.next_settle].price = 21
    /\ "bess" \in DOMAIN ret.value

\* the buy and the sell condition of lines 237 and 242 both hold in this call
BothConditions ==
    /\ RatLess(sma_bid.last_average, lma_bid.last_average)
    /\ args.projected_soc < 90
    /\ ~RatLess(sma_ask.last_average, lma_ask.last_average)
    /\ args.projected_soc > 30

\* C4: buy_trigger and sell_trigger are never both true; when act() evaluates
\* the triggers and both conditions hold, it leaves buy_trigger false and
\* sell_trigger true.
C4_SellWinsTie ==
    /\ ~(buy_trigger /\ sell_trigger)
    /\ (ActComposed /\ storage /\ ResidualLoad > 0 /\ BothConditions) =>
          (~buy_trigger /\ sell_trigger)

\* C4 witness: act() evaluated the triggers with both conditions holding.
C4_Witness ==
    /\ ActComposed /\ storage /\ ResidualLoad > 0 /\ BothConditions
    /\ ~buy_trigger /\ sell_trigger

\* a step in which a learn() call ends: at once, or resumed from its await
LearnStep == pc = "ready" /\ pc' = "returned" /\ op' = "learn"

\* a step in which a learn() call runs up to its await
LearnSuspends == pc = "ready" /\ pending' = pending (+) SetToBag({LearnAt132})

\* a learn() call got rewards while learning: the round applies an update
AppliedLearnStep == LearnStep /\ learning /\ args'.rewards # None

\* C5: in a round that applies an update with unit_profit_diff <= 0 the slot's
\* new ask price is max(unit_profit, last_ask_price - step), so neither below
\* unit_profit nor below last_ask_price - step; with unit_cost_diff >= 0 the
\* slot's new bid price is min(unit_cost, last_bid_price + step), so neither
\* above unit_cost nor above last_bid_price + step.
C5_ClampedPrices ==
    [][AppliedLearnStep =>
        LET rewards == args'.rewards
            slot == MinuteOfDay(args'.last_deliver)
            last_ask_price == ask_prices[slot][1]
            last_bid_price == bid_prices[slot][1]
            new_ask_price == ask_prices'[slot][1]
            new_bid_price == bid_prices'[slot][1]
        IN  /\ rewards[2] <= 0 =>
                /\ new_ask_price >= rewards[1]
                /\ new_ask_price >= last_ask_price - 1
                /\ new_ask_price \in {rewards[1], last_ask_price - 1}
            /\ rewards[4] >= 0 =>
                /\ new_bid_price <= rewards[3]
                /\ new_bid_price <= last_bid_price + 1
                /\ new_bid_price \in {rewards[3], last_bid_price + 1}]_vars

\* C5 witness: the round with rewards <<25, -1, 15, 1>> moved the slot of
\* minute 15 (ask 20, bid 20 before) to the realized unit profit and unit cost.
C5_Witness ==
    /\ pc = "returned" /\ op = "learn" /\ learning
    /\ args.rewards = <<25, -1, 15, 1>>
    /\ args.last_deliver = RoundEndingAt(15)
    /\ ask_prices[15] = <<25, -1>>
    /\ bid_prices[15] = <<15, 1>>

\* C6: with the learning flag false, or no data from the reward calculator,
\* learn() changes no entry of either price table, no tracker and no trigger.
C6_LearnNoOp ==
    [][(LearnSuspends \/ (LearnStep /\ (~learning \/ args'.rewards = None))) =>
        /\ bid_prices' = bid_prices
        /\ ask_prices' = ask_prices
        /\ sma_bid' = sma_bid /\ lma_bid' = lma_bid
        /\ sma_ask' = sma_ask /\ lma_ask' = lma_ask
        /\ buy_trigger' = buy_trigger /\ sell_trigger' = sell_trigger]_vars

\* C6 witness: learn() got no rewards, in learning mode, after rounds that
\* moved the trackers and an act() that set a trigger.
C6_Witness ==
    /\ pc = "returned" /\ op = "learn" /\ learning
    /\ args.rewards = None
    /\ updates > 0 /\ sma_bid.count = updates
    /\ sell_trigger

\* C7: save_weights() returns True on every call; for a validation market_id it
\* dispatches no write and leaves the status flags alone; otherwise it
\* dispatches the write of both price tables and leaves weights_saving = False
\* and weights_saved = True.
C7_SaveAlwaysSucceeds ==
    [][(pc = "ready" /\ pc' = "returned" /\ op' = "save_weights") =>
        /\ ret'.outcome = "returned"
        /\ ret'.value = TRUE
        /\ IF \E i \in 1 .. (Len(args'.market_id) - 9) :
                 SubSeq(args'.market_id, i, i + 9) =
                    <<"v", "a", "l", "i", "d", "a", "t", "i", "o", "n">>
           THEN db_tasks' = db_tasks /\ status' = status
           ELSE /\ Len(db_tasks') = Len(db_tasks) + 1
                /\ db_tasks'[Len(db_tasks')].bid_prices = [str |-> bid_prices]
                /\ db_tasks'[Len(db_tasks')].ask_prices = [str |-> ask_prices]
                /\ status'.weights_saving = FALSE
                /\ status'.weights_saved = TRUE]_vars

\* C8: with telemetry tracking enabled, act() returns the action set it composed
\* even when a track call or the save request fails or does not complete.
C8_TelemetryNeverBlocks ==
    ActAfterTelemetry => (ret.outcome = "returned" /\ ret.value = args.actions)

\* a step that is a call of reset()
ResetStep == pc = "ready" /\ pc' = "returned" /\ op' = "reset"

\* C9: reset() leaves the four trackers with count 0 and average 0 and both
\* price tables unchanged, whatever preceded it; a reset() that follows a
\* reset(), and so finds the trackers as that one left them, changes nothing
\* of the agent.
C9_ResetClearsTrackersOnly ==
    [][ResetStep =>
        /\ TrackersCleared'
        /\ bid_prices' = bid_prices
        /\ ask_prices' = ask_prices
        /\ TrackersCleared =>
              /\ sma_bid' = sma_bid /\ lma_bid' = lma_bid
              /\ sma_ask' = sma_ask /\ lma_ask' = lma_ask
              /\ buy_trigger' = buy_trigger /\ sell_trigger' = sell_trigger
              /\ status' = status]_vars

\* C9 witness: reset() returned after learning rounds that moved the slot of
\* minute 15 of both tables (each started at <<20, 0>>).
C9_Witness ==
    /\ pc = "returned" /\ op = "reset"
    /\ TrackersCleared
    /\ bid_prices[15][1] = 19
    /\ ask_prices[15][1] = 21

\* C10: a tracker's count is min(k, W) after k update() calls since its
\* construction or last reset(): k while k <= W, W afterwards; update() never
\* lowers it and it never exceeds W.
C10_CountIsMinOfCallsAndWindow ==
    [][/\ sma_bid'.count =
            IF updates' <= sma_bid'.window_size THEN updates' ELSE sma_bid'.window_size
       /\ sma_bid'.count <= sma_bid'.window_size
       /\ op' = "update" => sma_bid'.count >= sma_bid.count]_vars

\* C10 witness: more update() calls than the window holds, the count at the
\* window size.
C10_Witness ==
    /\ op = "update"
    /\ sma_bid.window_size >= 2
    /\ updates > sma_bid.window_size + 1
    /\ sma_bid.count = sma_bid.window_size

\* what a generated table looks like: keys 0..1439, every price between the two
\* reference prices whatever their order, every last_signal 0, and every minute
\* at the price of the first minute of its chunk of window_size minutes
InitialTable(table, min_price, max_price, window_size) ==
    /\ DOMAIN table = 0 .. 1439
    /\ \A i \in 0 .. 1439 :
          /\ table[i][1] >= Min(min_price, max_price)
          /\ table[i][1] <= Max(min_price, max_price)
          /\ table[i][2] = 0
          /\ table[i][1] = table[(i \div window_size) * window_size][1]

\* C11: a table generated with a window that divides 1440 has exactly the keys
\* 0..1439, every price between the two reference prices whatever the order
\* they are passed in, every last_signal 0 and one price per chunk of `window`
\* consecutive minutes; the two tables of the agent are generated so with a
\* window of 15, and keep exactly the keys 0..1439 after any learn/act/reset.
C11_TableShape ==
    /\ DOMAIN bid_prices = 0 .. 1439
    /\ DOMAIN ask_prices = 0 .. 1439
    /\ op = "init" =>
          /\ InitialTable(bid_prices, bid_price, ask_price, 15)
          /\ InitialTable(ask_prices, bid_price, ask_price, 15)
    /\ (op = "generate_price_table" /\ pc = "returned") =>
          /\ ret.outcome = "returned"
          /\ InitialTable(ret.value, args.bid_price, args.ask_price, args.window_size)

\* C12: in a round that applies an update with unit_profit_diff > 0 the slot's
\* ask price becomes last_ask_price + step if unit_profit_diff is strictly
\* greater than the last_signal the slot held before the call, and
\* last_ask_price - step otherwise; with unit_cost_diff < 0 the slot's bid price
\* becomes last_bid_price - step if unit_cost_diff is strictly greater than the
\* last_signal the slot held, and last_bid_price + step otherwise; whichever
\* branch ran, the ask slot ends with last_signal = unit_profit_diff and the bid
\* slot with last_signal = unit_cost_diff.
C12_TrendStep ==
    [][AppliedLearnStep =>
        LET rewards == args'.rewards
            slot == MinuteOfDay(args'.last_deliver)
            last_ask == ask_prices[slot]
            last_bid == bid_prices[slot]
        IN  /\ rewards[2] > 0 =>
                ask_prices'[slot][1] =
                    IF rewards[2] > last_ask[2] THEN last_ask[1] + 1 ELSE last_ask[1] - 1
            /\ rewards[4] < 0 =>
                bid_prices'[slot][1] =
                    IF rewards[4] > last_bid[2] THEN last_bid[1] - 1 ELSE last_bid[1] + 1
            /\ ask_prices'[slot][2] = rewards[2]
            /\ bid_prices'[slot][2] = rewards[4]]_vars

\* C12 witness: the second round of minute 15 (ask 20, bid 20 at first), with
\* rewards <<20, 1, 20, -1>> after <<20, 2, 20, -2>>: 1 is not above the stored
\* 2, so the ask went 21 -> 20; -1 is above the stored -2, so the bid went
\* 21 -> 20.
C12_Witness ==
    /\ pc = "returned" /\ op = "learn" /\ learning
    /\ args.rewards = <<20, 1, 20, -1>>
    /\ args.last_deliver = RoundEndingAt(15)
    /\ sma_bid.count = 2
    /\ sma_ask.last_average = <<41, 2>>
    /\ sma_bid.last_average = <<41, 2>>
    /\ ask_prices[15] = <<20, 1>>
    /\ bid_prices[15] = <<20, -1>>

\* C13: with storage, a positive residual load R and the buy trigger false,
\* act() schedules bess[next_settle] = max(-R, max_discharge); if R plus that
\* discharge is positive it issues a bid of exactly that quantity at the learned
\* bid price and no ask; otherwise it issues no bid, and an ask of
\* |max_discharge - effective_discharge| at the learned ask price if and only if
\* that unused capacity is not zero and the sell trigger is true.
C13_DischargeBeforeBidding ==
    /\ ReturnsComposed
    /\ (ActComposed /\ storage /\ ResidualLoad > 0 /\ ~buy_trigger) =>
           LET max_discharge == args.energy_potential[1]
               effective_discharge ==
                   IF -ResidualLoad >= max_discharge THEN -ResidualLoad ELSE max_discharge
               unused == max_discharge - effective_discharge
               slot == MinuteOfDay(args.next_settle)
           IN  /\ "bess" \in DOMAIN ret.value
               /\ args.next_settle \in DOMAIN ret.value["bess"]
               /\ ret.value["bess"][args.next_settle] = effective_discharge
               /\ IF ResidualLoad + effective_discharge > 0
                  THEN /\ "bids" \in DOMAIN ret.value
                       /\ DOMAIN ret.value["bids"] = {args.next_settle}
                       /\ ret.value["bids"][args.next_settle] =
                             [quantity |-> ResidualLoad + effective_discharge,
                              source |-> "solar", price |-> bid_prices[slot][1]]
                       /\ "asks" \notin DOMAIN ret.value
                  ELSE /\ "bids" \notin DOMAIN ret.value
                       /\ ("asks" \in DOMAIN ret.value) <=> (unused # 0 /\ sell_trigger)
                       /\ "asks" \in DOMAIN ret.value =>
                             /\ DOMAIN ret.value["asks"] = {args.next_settle}
                             /\ ret.value["asks"][args.next_settle] =
                                   [quantity |-> Abs(unused), source |-> "solar",
                                    price |-> ask_prices[slot][1]]

\* C13 witness: residual load 3 and max_discharge -4 with the sell trigger
\* true: a discharge of 3 is scheduled, no bid is issued and the unused 1 is
\* asked at the price the ask table holds for minute 15 after a learning round,
\* which differs from the bid table's.
C13_Witness ==
    /\ ActComposed /\ storage /\ ResidualLoad = 3 /\ ~buy_trigger /\ sell_trigger
    /\ args.energy_potential = <<-4, 3>>
    /\ updates > 0
    /\ ret.outcome = "returned"
    /\ ret.value["bess"][args.next_settle] = -3
    /\ "bids" \notin DOMAIN ret.value
    /\ ret.value["asks"][args.next_settle].quantity = 1
    /\ ret.value["asks"][args.next_settle].price = ask_prices[15][1]
    /\ ask_prices[15][1] # bid_prices[15][1]

\* C14 as stated: in a round that applies an update with unit_profit_diff <= 0
\* the slot's new ask price is not greater than its previous ask price, and
\* with unit_cost_diff >= 0 the slot's new bid price is not less than its
\* previous bid price, for every realized unit_profit and unit_cost.
C14_MonotoneSteps ==
    [][AppliedLearnStep =>
        LET rewards == args'.rewards
            slot == MinuteOfDay(args'.last_deliver)
        IN  /\ rewards[2] <= 0 => ask_prices'[slot][1] <= ask_prices[slot][1]
            /\ rewards[4] >= 0 => bid_prices'[slot][1] >= bid_prices[slot][1]]_vars

\* C14 amended: with unit_profit_diff <= 0 the slot's new ask price is
\* max(unit_profit, last_ask_price - step): it is not
\* greater than its previous ask price, and not below unit_profit, when
\* unit_profit is at most the previous ask price; when unit_profit is above the
\* previous ask price the new ask price is unit_profit, above the previous one.
\* With unit_cost_diff >= 0 the slot's new bid price is
\* min(unit_cost, last_bid_price + step): it is not less than its
\* previous bid price, and not above unit_cost, when unit_cost is at least the
\* previous bid price; when unit_cost is below the previous bid price the new
\* bid price is unit_cost, below the previous one.
C14_StepsTowardRealized ==
    [][AppliedLearnStep =>
        LET rewards == args'.rewards
            slot == MinuteOfDay(args'.last_deliver)
            last_ask_price == ask_prices[slot][1]
            last_bid_price == bid_prices[slot][1]
            new_ask_price == ask_prices'[slot][1]
            new_bid_price == bid_prices'[slot][1]
        IN  /\ rewards[2] <= 0 =>
                /\ new_ask_price =
                      IF rewards[1] >= last_ask_price - 1
                      THEN rewards[1] ELSE last_ask_price - 1
                /\ IF rewards[1] <= last_ask_price
                   THEN new_ask_price <= last_ask_price /\ new_ask_price >= rewards[1]
                   ELSE new_ask_price = rewards[1] /\ new_ask_price > last_ask_price
            /\ rewards[4] >= 0 =>
                /\ new_bid_price =
                      IF rewards[3] <= last_bid_price + 1
                      THEN rewards[3] ELSE last_bid_price + 1
                /\ IF rewards[3] >= last_bid_price
                   THEN new_bid_price >= last_bid_price /\ new_bid_price <= rewards[3]
                   ELSE new_bid_price = rewards[3] /\ new_bid_price < last_bid_price]_vars

\* C14 witness: the first round of minute 15 (ask 20 before) with rewards
\* <<25, 0, 20, -1>>: unit_profit_diff is 0 and the ask price went up to 25.
C14_Witness ==
    /\ pc = "returned" /\ op = "learn" /\ learning
    /\ args.rewards = <<25, 0, 20, -1>>
    /\ args.last_deliver = RoundEndingAt(15)
    /\ sma_ask.count = 1
    /\ ask_prices[15] = <<25, 0>>

\* the sell and the buy trigger as lines 237-249 compute them from the trackers
\* of the state and the projected SoC of the call
SellFormula ==
    /\ ~RatLess(sma_ask.last_average, lma_ask.last_average)
    /\ args.projected_soc > 30

BuyFormula ==
    /\ RatLess(sma_bid.last_average, lma_bid.last_average)
    /\ args.projected_soc < 90
    /\ ~SellFormula

\* C15 as stated: with storage, after every act() call, whichever residual
\* branch it took, sell_trigger equals (short ask average >= long ask average
\* and projected SoC > 0.3) and buy_trigger equals (short bid average < long bid
\* average and projected SoC < 0.9 and not sell_trigger), on the trackers and
\* the projected SoC of that round.
C15_RecomputedEveryRound ==
    (ActComposed /\ storage) =>
        /\ sell_trigger = SellFormula
        /\ buy_trigger = BuyFormula

\* a step of an act() call: up to its first await, or to the KeyError of line
\* 202; from there to the composed actions; from the telemetry to the return
ActStep ==
    /\ pc = "ready"
    /\ \/ op' = "act" /\ pc' \in {"returned", "suspended"}
       \/ \E next_settle \in Settles :
             pending' = pending (+) SetToBag({ActAt206(next_settle)})

\* the step of an act() call that reads the agent's state and composes the actions
ComposeStep ==
    /\ pc = "ready"
    /\ op' = "act"
    /\ pc' \in {"returned", "suspended"}
    /\ "next_profile" \in DOMAIN args'

\* C15 amended: with storage, an act() call with a positive residual load
\* sets sell_trigger to (short ask average >= long ask average and projected
\* SoC > 0.3) and buy_trigger to (short bid average < long bid average and
\* projected SoC < 0.9 and not sell_trigger), on the trackers and the projected
\* SoC of that round; an act() call with a positive residual generation or a
\* zero residual, or one that raises before it reaches the evaluation, leaves
\* both triggers as they are, and so does every other step of act().
C15_RecomputedWithResidualLoad ==
    [][(ActStep /\ storage) =>
        IF ComposeStep /\ args'.next_profile[2] > args'.next_profile[1]
        THEN /\ sell_trigger' = SellFormula'
             /\ buy_trigger' = BuyFormula'
        ELSE /\ sell_trigger' = sell_trigger
             /\ buy_trigger' = buy_trigger]_vars

\* C15 witness: act() ended a round with a positive residual generation after
\* a reset(): the trackers are cleared, so the buy condition is false, and
\* buy_trigger is still true from an earlier round.
C15_Witness ==
    /\ ActComposed /\ storage /\ ResidualGeneration > 0
    /\ TrackersCleared
    /\ buy_trigger /\ ~sell_trigger
    /\ ~BuyFormula /\ SellFormula

\* C16: with storage, act() reconciles the storage schedule of current_round:
\* for a scheduled energy S > 0 it emits bess[current_round] =
\* min(S, max(0, settled bids - max(0, residual load of that round))), a value
\* in [0, S] that does not exceed the settled bids; for S < 0 it emits
\* bess[current_round] = S - settled asks, a discharge of at least S; for S = 0
\* it emits no entry for current_round. Scheduling next_settle in the same call
\* leaves the entry of current_round as it is.
C16_SettledRoundReconciled ==
    /\ ReturnsComposed
    /\ (ActComposed /\ storage) =>
           LET S == args.energy_scheduled
               ls_residual_load == args.ls_profile[2] - args.ls_profile[1]
               covered == IF ls_residual_load > 0 THEN ls_residual_load ELSE 0
               bought == args.settled.bids - covered
               charge == IF bought < 0 THEN 0 ELSE IF bought < S THEN bought ELSE S
               current_round == args.current_round
           IN  /\ S > 0 =>
                     /\ "bess" \in DOMAIN ret.value
                     /\ current_round \in DOMAIN ret.value["bess"]
                     /\ ret.value["bess"][current_round] = charge
                     /\ ret.value["bess"][current_round] \in 0 .. S
                     /\ ret.value["bess"][current_round] <= args.settled.bids
               /\ S < 0 =>
                     /\ "bess" \in DOMAIN ret.value
                     /\ current_round \in DOMAIN ret.value["bess"]
                     /\ ret.value["bess"][current_round] = S - args.settled.asks
                     /\ ret.value["bess"][current_round] <= S
               /\ S = 0 =>
                     ("bess" \in DOMAIN ret.value =>
                         current_round \notin DOMAIN ret.value["bess"])

\* C16 witness: 3 were scheduled for the settled round, 2 were bought and the
\* round had a residual generation of 1: bess[current_round] = 2, next to the
\* charge of 3 the same call, with the buy trigger true, schedules for
\* next_settle over the discharge it scheduled first.
C16_Witness ==
    /\ ActComposed /\ storage /\ buy_trigger
    /\ args.energy_scheduled = 3 /\ args.settled.bids = 2
    /\ args.ls_profile = <<1, 0>>
    /\ ResidualLoad = 10
    /\ ret.outcome = "returned"
    /\ ret.value["bess"][args.current_round] = 2
    /\ ret.value["bess"][args.next_settle] = 3

\* tracker `after` is tracker `before` fed new_value once: the count one higher,
\* capped at the window, and the average moved by (new_value - average) / count
Fed(before, after, new_value) ==
    LET count == IF before.count < before.window_size
                 THEN before.count + 1 ELSE before.window_size
        n == before.last_average[1]
        d == before.last_average[2]
        \* the moved average is moved / whole; the tracker holds it in lowest
        \* terms, so its denominator divides whole
        moved == n * count + new_value * d - n
        whole == d * count
    IN  /\ after.window_size = before.window_size
        /\ after.count = count
        /\ after.last_average[2] > 0
        /\ whole % after.last_average[2] = 0
        /\ after.last_average[1] * (whole \div after.last_average[2]) = moved

\* C17: a learn() round that applies an update leaves every slot of both price
\* tables but the one of the minute of the day of last_deliver unchanged, and
\* feeds the new bid price of that slot once to the short and the long bid
\* tracker and the new ask price of that slot once to the short and the long
\* ask tracker, so every tracker's count grows by one, capped at its window.
C17_OneSlotFourUpdates ==
    [][AppliedLearnStep =>
        LET slot == MinuteOfDay(args'.last_deliver)
        IN  /\ DOMAIN bid_prices' = DOMAIN bid_prices
            /\ DOMAIN ask_prices' = DOMAIN ask_prices
            /\ [bid_prices' EXCEPT ![slot] = bid_prices[slot]] = bid_prices
            /\ [ask_prices' EXCEPT ![slot] = ask_prices[slot]] = ask_prices
            /\ Fed(sma_bid, sma_bid', bid_prices'[slot][1])
            /\ Fed(lma_bid, lma_bid', bid_prices'[slot][1])
            /\ Fed(sma_ask, sma_ask', ask_prices'[slot][1])
            /\ Fed(lma_ask, lma_ask', ask_prices'[slot][1])]_vars

\* C17 witness: the 24th applied round, for minute 15, with rewards
\* <<21, 0, 19, 0>> after 23 steady rounds: the slot of minute 15 holds bid 19
\* and ask 21, minute 14 and minute 30 are as constructed, the short trackers
\* stay at their window of 23 and the long ones count 24.
C17_Witness ==
    /\ pc = "returned" /\ op = "learn" /\ learning
    /\ args.rewards = <<21, 0, 19, 0>>
    /\ args.last_deliver = RoundEndingAt(15)
    /\ bid_prices[15] = <<19, 0>> /\ ask_prices[15] = <<21, 0>>
    /\ bid_prices[14] = <<20, 0>> /\ ask_prices[30] = <<20, 0>>
    /\ sma_bid.count = 23 /\ lma_bid.count = 24
    /\ sma_ask.count = 23 /\ lma_ask.count = 24
    /\ sma_bid.last_average # <<20, 1>>

\* C18: no action set returned by act() holds both a bid and an ask, whatever
\* the storage, the triggers and the sign of the residual; with a zero residual
\* it holds neither; and every bid issued with storage is for the residual load
\* plus bess[next_settle].
C18_BidOrAskNeverBoth ==
    /\ ReturnsComposed
    /\ (ActComposed) =>
           /\ ~("bids" \in DOMAIN ret.value /\ "asks" \in DOMAIN ret.value)
           /\ ResidualLoad = 0 =>
                 ("bids" \notin DOMAIN ret.value /\ "asks" \notin DOMAIN ret.value)
           /\ (storage /\ "bids" \in DOMAIN ret.value) =>
                 /\ DOMAIN ret.value["bids"] = {args.next_settle}
                 /\ "bess" \in DOMAIN ret.value
                 /\ args.next_settle \in DOMAIN ret.value["bess"]
                 /\ ret.value["bids"][args.next_settle].quantity =
                       ResidualLoad + ret.value["bess"][args.next_settle]

\* C18 witness: residual load 10 with max_discharge -4, the buy trigger false
\* and the sell trigger true, after the trackers diverged: a bid of 6, a
\* scheduled discharge of 4 and no ask.
C18_Witness ==
    /\ ActComposed /\ storage /\ ResidualLoad = 10
    /\ ~buy_trigger /\ sell_trigger
    /\ sma_bid.last_average # lma_bid.last_average
    /\ ret.outcome = "returned"
    /\ ret.value["bids"][args.next_settle].quantity = 6
    /\ ret.value["bess"][args.next_settle] = -4
    /\ "asks" \notin DOMAIN ret.value

\* the short and the long tracker of each side hold the same count and the same
\* average
TrackersAgree ==
    /\ sma_bid.count = lma_bid.count
    /\ sma_ask.count = lma_ask.count
    /\ sma_bid.last_average[1] * lma_bid.last_average[2] =
          lma_bid.last_average[1] * sma_bid.last_average[2]
    /\ sma_ask.last_average[1] * lma_ask.last_average[2] =
          lma_ask.last_average[1] * sma_ask.last_average[2]

\* C19: from construction or a reset() until more than 23 learning updates
\* have been applied, the short and the long tracker of each side hold equal
\* counts and equal averages; during that warm-up act() never sets buy_trigger
\* true and never schedules a storage charge (bess[next_settle] is the
\* discharge max(-R, max_discharge), or absent), and where it evaluates the
\* triggers sell_trigger is exactly (projected SoC > 0.3).
C19_WarmUp ==
    [][/\ updates' <= 23 => TrackersAgree'
       /\ (ComposeStep /\ updates <= 23) =>
            LET R == args'.next_profile[2] - args'.next_profile[1]
                max_discharge == args'.energy_potential[1]
                max_charge == args'.energy_potential[2]
                discharge == IF -R >= max_discharge THEN -R ELSE max_discharge
            IN  /\ buy_trigger' => buy_trigger
                /\ (storage /\ R > 0) =>
                      /\ ~buy_trigger'
                      /\ sell_trigger' = (args'.projected_soc > 30)
                      /\ ret'.value["bess"][args'.next_settle] = discharge
                      /\ max_charge > 0 =>
                            ret'.value["bess"][args'.next_settle] # max_charge
                      /\ "bids" \in DOMAIN ret'.value =>
                            ret'.value["bids"][args'.next_settle].quantity =
                                R + discharge
                /\ (~storage \/ R <= 0) =>
                      ("bess" \in DOMAIN ret'.value =>
                          args'.next_settle \notin DOMAIN ret'.value["bess"])]_vars

\* C19 witness: act() with storage, a residual load of 10, max_charge 3 and a
\* projected SoC of 30 after exactly 23 learning updates that moved the
\* averages off the steady price: no trigger is set and 4 are discharged.
C19_Witness ==
    /\ ActComposed /\ storage /\ ResidualLoad = 10
    /\ updates = 23
    /\ sma_bid.count = 23 /\ lma_bid.count = 23
    /\ sma_bid.last_average # <<20, 1>>
    /\ sma_bid.last_average = lma_bid.last_average
    /\ args.projected_soc = 30
    /\ args.energy_potential = <<-4, 3>>
    /\ ~buy_trigger /\ ~sell_trigger
    /\ ret.outcome = "returned"
    /\ ret.value["bess"][args.next_settle] = -4

\* C20: act() leaves the price and last_signal of every slot of both price
\* tables and the count and average of all four trackers as they were, for
\* every input and branch; of the agent's state it changes buy_trigger and
\* sell_trigger at most. learn() and reset() leave buy_trigger and sell_trigger
\* as they were.
C20_ActLearnsNothing ==
    [][/\ ActStep =>
            /\ bid_prices' = bid_prices
            /\ ask_prices' = ask_prices
            /\ sma_bid' = sma_bid /\ lma_bid' = lma_bid
            /\ sma_ask' = sma_ask /\ lma_ask' = lma_ask
            /\ bid_price' = bid_price /\ ask_price' = ask_price
            /\ learning' = learning /\ storage' = storage
            /\ track_metrics' = track_metrics /\ timezone' = timezone
            /\ status' = status
       /\ (LearnStep \/ LearnSuspends \/ ResetStep) =>
            /\ buy_trigger' = buy_trigger
            /\ sell_trigger' = sell_trigger]_vars

\* C20 witness: act() ended a round that set the buy trigger, with the tables
\* learned (bid 19 at minute 15) and the trackers past the short window.
C20_Witness ==
    /\ ActComposed /\ storage /\ ResidualLoad > 0
    /\ buy_trigger
    /\ bid_prices[15] = <<19, 0>>
    /\ sma_bid.count = 23 /\ lma_bid.count = 24
    /\ RatLess(sma_bid.last_average, lma_bid.last_average)

====
